---- MODULE Spec2Model ----
(***************************************************************************)
(* A model of the statechart runtime (package statechart): the state tree, *)
(* the construction of transitions (exit and entry sets, outgoing lists),  *)
(* and the run-time operations start(), dispatch(event) and stop().        *)
(*                                                                         *)
(* Reading of the source.  The package spells one attribute in two ways:   *)
(* State.__init__ creates `transitions`, the pseudostates and the tests    *)
(* read `_transitions`; CompositeState.__init__ creates `history_state`,   *)
(* ShallowHistoryState.__init__ sets `history`.  The model takes each pair *)
(* as one attribute.  `scope`, the first argument handed to guards and     *)
(* actions, is opaque user data, whatever the parameter is called.  An     *)
(* exception ends the run: the machine keeps the fields it had when the    *)
(* exception was raised (variable err).                                    *)
(***************************************************************************)
EXTENDS Integers, Sequences, FiniteSets, TLC

None == "None"

(***************************************************************************)
(* The machine.                                                            *)
(***************************************************************************)
VARIABLES
  chart,          \* the statechart that was constructed
  ctx,            \* the user's datum the "ctx" guards read
  active,         \* State.active of every node
  current_state,  \* Context.current_state of every node
  finished,       \* Context.finished of every node
  hist_state,     \* ShallowHistoryState.state of every history pseudostate
  mtransition,    \* Metadata.transition: a position in the program, 0 if None
  err,            \* "none", or the exception that ended the run
  lastOp,         \* the operation that was called last
  lastEvent,      \* the event of the last dispatch
  result,         \* what the last operation returned
  log,            \* the callbacks observed during the last operation
  fired,          \* the transitions executed during the last operation
  t_start,        \* start of the transition being constructed
  t_end,          \* end of the transition being constructed
  t_deactivate,   \* its Transition.deactivate
  t_activate,     \* its Transition.activate
  constructed,    \* the transitions constructed from one state, in order
  transitions,    \* State.transitions of that state: positions in constructed
  seq,            \* the events the client of a round trip sends in a run
  pc,             \* the number of calls of the round trip made so far
  first,          \* State.active of every node at the end of the first run
  task,           \* the task State.do started is in progress, for every node
  left_final      \* the composite was last exited with a final current child

vars ==
  <<chart, ctx, active, current_state, finished, hist_state, mtransition, err,
    lastOp, lastEvent, result, log, fired,
    t_start, t_end, t_deactivate, t_activate, constructed, transitions,
    seq, pc, first, task, left_final>>

(***************************************************************************)
(* The state tree the statecharts below are assembled on.                  *)
(***************************************************************************)
Root == "sc"

Nodes ==
  {"sc", "i0", "ch", "A", "B", "f0",
   "S", "iS", "hS", "D", "L", "fS",
   "M", "iM", "X", "fM",
   "K", "R1", "iR1", "P", "Q", "fR1", "R2", "iR2", "U", "V"}

\* The class of each node.
Kind ==
  [n \in Nodes |->
     CASE n = "sc" -> "statechart"
       [] n \in {"i0", "iS", "iM", "iR1", "iR2"} -> "initial"
       [] n = "ch" -> "choice"
       [] n = "hS" -> "history"
       [] n \in {"f0", "fS", "fM", "fR1"} -> "final"
       [] n \in {"S", "M", "R1", "R2"} -> "composite"
       [] n = "K" -> "concurrent"
       [] OTHER -> "state"]

\* State.context: the parent context handed to the constructor.
Context ==
  [n \in Nodes |->
     CASE n = "sc" -> None
       [] n \in {"i0", "ch", "A", "B", "f0", "S", "K"} -> "sc"
       [] n \in {"iS", "hS", "D", "L", "fS", "M"} -> "S"
       [] n \in {"iM", "X", "fM"} -> "M"
       [] n \in {"R1", "R2"} -> "K"
       [] n \in {"iR1", "P", "Q", "fR1"} -> "R1"
       [] n \in {"iR2", "U", "V"} -> "R2"]

PseudoStates == {n \in Nodes : Kind[n] \in {"initial", "choice", "history"}}

\* The nodes that were constructed: all of them, but for the statechart
\* that is given no initial pseudostate.
Built == IF chart = "noinitial" THEN Nodes \ {"i0"} ELSE Nodes

\* Context.initial_state, set by InitialState.__init__.
initial_state ==
  [n \in Nodes |->
     IF \E i \in Built : Kind[i] = "initial" /\ Context[i] = n
     THEN CHOOSE i \in Built : Kind[i] = "initial" /\ Context[i] = n
     ELSE None]

\* CompositeState.history_state, set by ShallowHistoryState.__init__.
history_state ==
  [n \in Nodes |->
     IF \E h \in Nodes : Kind[h] = "history" /\ Context[h] = n
     THEN CHOOSE h \in Nodes : Kind[h] = "history" /\ Context[h] = n
     ELSE None]

\* ConcurrentState.regions, in the order add_region was called.
regions ==
  [n \in Nodes |-> IF n = "K" THEN <<"R1", "R2">> ELSE <<>>]

(***************************************************************************)
(* Events.  None is the absent event; Event.__eq__ compares names and is   *)
(* false against None.                                                     *)
(***************************************************************************)
Events == {"e", "f", "g"}

EventEq(a, b) == IF b = None THEN FALSE ELSE a = b

EventNe(a, b) == ~EventEq(a, b)

(***************************************************************************)
(* Transition._calculate_state_set                                         *)
(***************************************************************************)
RECURSIVE ContextStates(_, _)
\* The loop that walks s.context up to, and without, the statechart.
ContextStates(s, acc) ==
  LET acc1 == <<s>> \o acc
      context == Context[s]
  IN IF context # None /\ Kind[context] # "statechart"
     THEN ContextStates(context, acc1)
     ELSE acc1

Min(a, b) == IF a < b THEN a ELSE b

RECURSIVE LcaLoop(_, _, _, _)
LcaLoop(start_states, end_states, lca, min_state_count) ==
  IF lca < min_state_count
  THEN IF start_states[lca + 1] # end_states[lca + 1]
       THEN lca
       ELSE LcaLoop(start_states, end_states, lca + 1, min_state_count)
  ELSE lca

\* A faulty index: the search for the first difference is left out.
LcaIndexNoLoop(start, end) ==
  Min(Len(ContextStates(start, <<>>)), Len(ContextStates(end, <<>>))) - 1

\* The index (0-based, as in the source) the two sets are cut at.
LcaIndex(start, end) ==
  LET start_states == ContextStates(start, <<>>)
      end_states == ContextStates(end, <<>>)
      min_state_count == Min(Len(start_states), Len(end_states))
  IN IF start # end
     THEN LcaLoop(start_states, end_states, 0, min_state_count)
     ELSE min_state_count - 1

Reverse(s) == [i \in 1..Len(s) |-> s[Len(s) + 1 - i]]

\* Transition.deactivate: start_states[lca:], innermost first.
DeactivateSet(start, end) ==
  LET start_states == ContextStates(start, <<>>)
      lca == LcaIndex(start, end)
  IN Reverse(SubSeq(start_states, lca + 1, Len(start_states)))

\* Transition.activate: end_states[lca:], outermost first.
ActivateSet(start, end) ==
  LET end_states == ContextStates(end, <<>>)
      lca == LcaIndex(start, end)
  IN SubSeq(end_states, lca + 1, Len(end_states))

(***************************************************************************)
(* Transitions.  A transition is written as the arguments its constructor  *)
(* is given; `internal` tells an InternalTransition.  A guard is None, the *)
(* ElseGuard, or a guard reading the user's data: "ctx" passes when the    *)
(* datum is true, "notctx" when it is false.  The action of a transition   *)
(* is the user's: it is observed to run, and `raises` tells an action that *)
(* raises an error when it runs.                                           *)
(***************************************************************************)
Tr(start, end, event, guard) ==
  [start |-> start, end |-> end, event |-> event, guard |-> guard,
   internal |-> FALSE, raises |-> FALSE]

ITr(state, event, guard) ==
  [start |-> state, end |-> state, event |-> event, guard |-> guard,
   internal |-> TRUE, raises |-> FALSE]

\* A transition whose action raises.
RTr(start, end, event, guard) ==
  [start |-> start, end |-> end, event |-> event, guard |-> guard,
   internal |-> FALSE, raises |-> TRUE]

(***************************************************************************)
(* The statecharts: each is the sequence of transitions in the order they  *)
(* are constructed, on the tree above.                                     *)
(***************************************************************************)
ChartNames ==
  {"completion", "local", "nested", "concurrent", "choice", "history",
   "guarded", "keyboard", "noinitial", "notransition", "raising",
   "escape", "exitguard"}

\* A composite with a final state and a transition without trigger.
CompletionChart ==
  << Tr("i0", "S", None, None),
     Tr("iS", "D", None, None),
     Tr("D", "L", "e", None),
     Tr("L", "fS", "e", None),
     Tr("S", "B", None, None),
     Tr("B", "A", "f", None),
     Tr("A", "S", "e", None) >>

\* Transitions between a composite and its own descendants.
LocalChart ==
  << Tr("i0", "S", None, None),
     Tr("iS", "D", None, None),
     Tr("S", "L", "e", None),
     Tr("L", "S", "f", None),
     Tr("D", "L", "f", None),
     Tr("L", "fS", "g", None),
     Tr("S", "D", "g", "ctx") >>

\* A composite nested in a composite.
NestedChart ==
  << Tr("i0", "S", None, None),
     Tr("iS", "M", None, None),
     Tr("iM", "X", None, None),
     Tr("X", "fM", "e", None),
     Tr("S", "B", "e", None),
     Tr("B", "S", "e", None),
     Tr("S", "A", "f", None),
     Tr("A", "M", "f", None),
     Tr("M", "D", "g", None),
     Tr("D", "M", "g", None) >>

\* A concurrent state with two regions.
ConcurrentChart ==
  << Tr("i0", "A", None, None),
     Tr("A", "K", "e", None),
     Tr("iR1", "P", None, None),
     Tr("iR2", "U", None, None),
     Tr("P", "Q", "f", None),
     Tr("Q", "P", "f", None),
     Tr("U", "V", "f", None),
     Tr("V", "U", "g", None),
     Tr("K", "A", "e", None),
     Tr("A", "Q", "f", None),
     Tr("P", "K", "g", None) >>

\* A choice, a shallow history and an internal transition.
ChoiceChart ==
  << Tr("i0", "ch", None, None),
     Tr("ch", "A", None, "ctx"),
     Tr("ch", "B", None, "else"),
     Tr("A", "hS", "e", None),
     Tr("hS", "D", None, None),
     Tr("iS", "D", None, None),
     Tr("D", "L", "f", None),
     Tr("S", "ch", "g", None),
     Tr("B", "S", "e", None),
     ITr("L", "e", None),
     Tr("L", "fS", "f", None),
     Tr("L", "D", "f", "notctx") >>

\* A shallow history in a composite that holds a composite, a transition
\* of the composite to a state two levels below it, an internal transition
\* of the composite, a choice whose second transition has no guard.
HistoryChart ==
  << Tr("i0", "S", None, None),
     Tr("iS", "D", None, None),
     Tr("hS", "D", None, None),
     Tr("D", "M", "e", None),
     Tr("iM", "X", None, None),
     Tr("S", "A", "g", None),
     Tr("A", "hS", "e", None),
     Tr("S", "X", "f", None),
     ITr("S", "e", None),
     Tr("X", "fM", "e", None),
     Tr("A", "ch", "f", None),
     Tr("ch", "B", None, "notctx"),
     Tr("ch", "S", None, None),
     Tr("ch", "A", None, "ctx"),
     Tr("B", "hS", "e", None) >>

\* A choice with one transition, which has a guard.
GuardedChart ==
  << Tr("i0", "ch", None, None),
     Tr("ch", "A", None, "ctx"),
     Tr("A", "ch", "e", None),
     Tr("A", "B", "f", None),
     Tr("B", "ch", "f", None) >>

\* The keyboard with two locks: each region toggles on its own event.  The
\* first region has a final state.  The keyboard itself has a transition on
\* the event of the first region and a guarded one on the event that leads
\* the first region to its final state.  The state beside the keyboard
\* leads to the final state of the statechart.
KeyboardChart ==
  << Tr("i0", "K", None, None),
     Tr("iR1", "P", None, None),
     Tr("Q", "P", "e", None),
     Tr("P", "Q", "e", None),
     Tr("Q", "fR1", "g", None),
     Tr("iR2", "U", None, None),
     Tr("V", "U", "f", None),
     Tr("U", "V", "f", None),
     Tr("K", "A", "e", None),
     Tr("K", "A", "g", "ctx"),
     Tr("A", "K", "g", None),
     Tr("A", "f0", "e", None) >>

\* A statechart without an initial pseudostate.
NoInitialChart ==
  << Tr("A", "B", "e", None) >>

\* A statechart whose initial pseudostate has no transition.
NoTransitionChart ==
  << Tr("A", "B", "e", None) >>

\* Transitions whose actions raise: between siblings, out of a composite
\* from the composite and from its child, into a composite, and from a
\* composite to its own child.
RaisingChart ==
  << Tr("i0", "S", None, None),
     Tr("iS", "D", None, None),
     Tr("D", "L", "e", None),
     RTr("L", "D", "e", None),
     RTr("D", "B", "g", None),
     RTr("S", "A", "f", "ctx"),
     Tr("S", "A", "f", None),
     RTr("S", "D", "g", None),
     RTr("A", "S", "e", None),
     Tr("A", "S", "f", None) >>

\* Transitions from the states of the regions of a concurrent state to a
\* state outside it: from the first region on one event, from the last
\* region on another.  A third event toggles both regions.
EscapeChart ==
  << Tr("i0", "K", None, None),
     Tr("iR1", "P", None, None),
     Tr("iR2", "U", None, None),
     Tr("P", "Q", "g", None),
     Tr("Q", "P", "g", None),
     Tr("U", "V", "g", None),
     Tr("V", "U", "g", None),
     Tr("P", "A", "e", None),
     Tr("U", "A", "f", None),
     Tr("V", "B", "f", None),
     Tr("A", "K", "g", None),
     Tr("B", "K", "f", None),
     Tr("A", "B", "f", None) >>

\* A composite with a transition to its own child whose guard reads the
\* datum; the exit action of the default child D clears the datum.
ExitGuardChart ==
  << Tr("i0", "S", None, None),
     Tr("iS", "D", None, None),
     Tr("S", "L", "e", "ctx"),
     Tr("D", "L", "f", None),
     Tr("L", "D", "f", None),
     Tr("S", "D", "g", None),
     Tr("S", "A", "g", "notctx"),
     Tr("A", "S", "e", None) >>

Program(c) ==
  CASE c = "completion" -> CompletionChart
    [] c = "local" -> LocalChart
    [] c = "nested" -> NestedChart
    [] c = "concurrent" -> ConcurrentChart
    [] c = "choice" -> ChoiceChart
    [] c = "history" -> HistoryChart
    [] c = "guarded" -> GuardedChart
    [] c = "keyboard" -> KeyboardChart
    [] c = "noinitial" -> NoInitialChart
    [] c = "notransition" -> NoTransitionChart
    [] c = "raising" -> RaisingChart
    [] c = "escape" -> EscapeChart
    [] c = "exitguard" -> ExitGuardChart

(***************************************************************************)
(* add_transition: the outgoing list of a state holds the positions of its *)
(* transitions in the program.  A call that raises leaves the list as it   *)
(* was.                                                                    *)
(***************************************************************************)
\* A faulty State.add_transition: every transition is appended.
StateAddTransitionAppend(list, id, t) == Append(list, id)

\* State.add_transition: transitions with guards are checked first.
StateAddTransition(list, id, t) ==
  IF t.guard # None THEN <<id>> \o list ELSE Append(list, id)

\* The RuntimeError InitialState.add_transition raises, "none" when it
\* raises none.
InitialAddTransitionError(list, id, t) ==
  IF Len(list) # 0
  THEN "There can only be a single transition from an initial state"
  ELSE IF t.event # None
  THEN "Transition from initial state must not require an event trigger"
  ELSE IF t.guard # None
  THEN "Transition from initial state cannot have a guard condition"
  ELSE "none"

\* A faulty InitialState.add_transition: that of State is inherited.
InitialAddTransitionInherited(list, id, t) ==
  IF t.guard # None THEN <<id>> \o list ELSE Append(list, id)

\* InitialState.add_transition.
InitialAddTransition(list, id, t) ==
  IF Len(list) # 0 THEN list
  ELSE IF t.event # None THEN list
  ELSE IF t.guard # None THEN list
  ELSE StateAddTransition(list, id, t)

\* A faulty ChoiceState.add_transition: that of State is inherited.
ChoiceAddTransitionGuardedFirst(list, id, t) ==
  IF t.guard # None THEN <<id>> \o list ELSE Append(list, id)

\* ChoiceState.add_transition: checked in the order they are defined.
ChoiceAddTransition(list, id, t) == Append(list, id)

\* The add_transition of the class of the transition's start.
AddTransition(list, id, t) ==
  CASE Kind[t.start] = "statechart" -> list
    [] Kind[t.start] = "final" -> list
    [] Kind[t.start] = "initial" -> InitialAddTransition(list, id, t)
    [] Kind[t.start] = "choice" -> ChoiceAddTransition(list, id, t)
    [] OTHER -> StateAddTransition(list, id, t)

RECURSIVE Construct(_, _, _, _)
\* Transition.__init__ for each transition of the program, in order.
Construct(prog, i, s, list) ==
  IF i > Len(prog) THEN list
  ELSE Construct(prog, i + 1, s,
                 IF prog[i].start = s THEN AddTransition(list, i, prog[i])
                 ELSE list)

\* State.transitions of state s in chart c.
Transitions(c, s) == Construct(Program(c), 1, s, <<>>)

\* Transition.deactivate and Transition.activate; an InternalTransition
\* clears both.
TrDeactivate(t) ==
  IF t.internal THEN <<>> ELSE DeactivateSet(t.start, t.end)

TrActivate(t) ==
  IF t.internal THEN <<>> ELSE ActivateSet(t.start, t.end)

Prog == Program(chart)

(***************************************************************************)
(* One call of start, stop or dispatch runs to its end in one step.  The   *)
(* methods call one another recursively; the run is written with the call  *)
(* stack spelled out.  A frame names a method, or the point of a method    *)
(* at which it goes on after a call it made, with the values of its        *)
(* arguments and locals: s (self or the state at hand), ev (event), list   *)
(* and i (the sequence a loop walks and the position in it), acc (the      *)
(* local `dispatched`).  ret is the value the call before returned.        *)
(***************************************************************************)
Frame(op, s, ev, list, i, acc) ==
  [op |-> op, s |-> s, ev |-> ev, list |-> list, i |-> i, acc |-> acc]

Call(op, s, ev) == Frame(op, s, ev, <<>>, 0, FALSE)

Loop(op, s, ev, list, i) == Frame(op, s, ev, list, i, FALSE)

\* The fields of the machine the methods read and write, and the record of
\* what they were observed to do.  depth counts the calls of
\* Transition.execute in progress.
Machine ==
  [active |-> active, current_state |-> current_state, finished |-> finished,
   hist_state |-> hist_state, mtransition |-> mtransition, err |-> err,
   ctx |-> ctx, log |-> <<>>, fired |-> <<>>, depth |-> 0,
   stack |-> <<>>, ret |-> FALSE, left_final |-> left_final]

Raise(st, what) == [st EXCEPT !.err = what]

Raised(st) == st.err # "none"

Push(st, frames) == [st EXCEPT !.stack = frames \o @]

Return(st, ret) == [st EXCEPT !.ret = ret]

Observe(st, k, n, t) ==
  [st EXCEPT !.log = Append(@, [k |-> k, n |-> n, t |-> t, d |-> st.depth])]

\* State.entry then State.do, the user's callbacks of a state.
Entry(st, s) == Observe(Observe(st, "entry", s, 0), "do", s, 0)

\* The states whose exit action, the user's, clears the datum the guards
\* read.
ExitClears == IF chart = "exitguard" THEN {"D"} ELSE {}

\* State.exit; the exit of a pseudostate is not a user callback.
Exit(st, s) ==
  IF s \in PseudoStates THEN st
  ELSE LET s1 == Observe(st, "exit", s, 0)
       IN IF s \in ExitClears THEN [s1 EXCEPT !.ctx = FALSE] ELSE s1

\* State.handle_internal.
HandleInternal(st, s) == Observe(st, "internal", s, 0)

\* Guard.check of CallGuard (a guard reading the datum) and ElseGuard.
GuardCheck(st, guard) ==
  CASE guard = "else" -> TRUE
    [] guard = "ctx" -> st.ctx
    [] guard = "notctx" -> ~st.ctx

\* A faulty Transition.is_allowed: the trigger is not compared with the
\* event.
IsAllowedAnyEvent(st, t, event) ==
  IF t.guard # None /\ ~GuardCheck(st, t.guard) THEN FALSE
  ELSE TRUE

\* Transition.is_allowed.
IsAllowed(st, t, event) ==
  IF t.event # None /\ event = None THEN FALSE
  ELSE IF t.event # None /\ EventNe(t.event, event) THEN FALSE
  ELSE IF t.guard # None /\ ~GuardCheck(st, t.guard) THEN FALSE
  ELSE TRUE

\* State.activate.
StateActivate(st, s, event) ==
  LET s1 == [st EXCEPT !.active[s] = TRUE]
  IN IF Context[s] # None
     THEN IF ~s1.active[Context[s]]
          THEN Raise(s1, "Parent state not activated")
          ELSE Entry([s1 EXCEPT !.current_state[Context[s]] = s], s)
     ELSE Entry(s1, s)

\* State.deactivate.
StateDeactivate(st, s, event) ==
  [Exit(st, s) EXCEPT !.active[s] = FALSE]

\* Context.deactivate.
ContextDeactivate(st, s, event) ==
  [StateDeactivate(st, s, event) EXCEPT
     !.current_state[s] = None, !.finished[s] = FALSE]

\* Statechart.deactivate.
StatechartDeactivate(st, s, event) ==
  [st EXCEPT !.active[s] = FALSE, !.current_state[s] = None]

(***************************************************************************)
(* activate                                                                *)
(***************************************************************************)
\* InitialState.activate: self.dispatch(event=None).
InitialActivate(st, f) ==
  Push(st, <<Call("State.dispatch", f.s, None),
             Call("InitialState.dispatch:raise", f.s, None)>>)

\* A faulty InitialState.dispatch: a transition that was not dispatched is
\* passed over in silence.
InitialDispatchSilent(st, f) == Return(st, st.ret)

\* InitialState.dispatch, after super().dispatch returned.
InitialDispatchRaise(st, f) ==
  IF st.ret THEN Return(st, TRUE)
  ELSE Raise(st, "Initial state must be able to dispatch transition")

\* A faulty ShallowHistoryState.activate: the state the pseudostate keeps is
\* taken for the history info and activated.
HistoryActivateRestores(st, f) ==
  IF Len(Transitions(chart, f.s)) > 1
  THEN Raise(st, "History state cannot have more than 1 transition")
  ELSE IF st.hist_state[f.s] # None
  THEN Push(st, <<Call("activate", st.hist_state[f.s], f.ev)>>)
  ELSE Push(st, <<Call("State.dispatch", f.s, None)>>)

\* ShallowHistoryState.activate.  Metadata.history_states is written by
\* store_history_info alone, which nothing calls: has_history_info is false.
HistoryActivate(st, f) ==
  IF Len(Transitions(chart, f.s)) > 1
  THEN Raise(st, "History state cannot have more than 1 transition")
  ELSE Push(st, <<Call("State.dispatch", f.s, None)>>)

\* ChoiceState.activate: the loop over the transitions.
ChoiceActivate(st, f) ==
  Push(st, <<Loop("execute first", f.s, None, Transitions(chart, f.s), 1),
             Call("ChoiceState.activate:raise", f.s, None)>>)

\* A faulty ChoiceState.activate: it returns when no choice was made.
ChoiceActivateSilent(st, f) == st

\* ChoiceState.activate, after the loop.
ChoiceActivateRaise(st, f) ==
  IF st.ret THEN st
  ELSE Raise(st, "No choice made due to guard conditions")

\* FinalState.activate.
FinalActivate(st, f) ==
  LET s1 == StateActivate(st, f.s, f.ev)
  IN IF Raised(s1) THEN s1 ELSE [s1 EXCEPT !.finished[Context[f.s]] = TRUE]

\* CompositeState.activate.
CompositeActivate(st, f) ==
  LET s1 == StateActivate(st, f.s, f.ev)
  IN IF Raised(s1) THEN s1
     ELSE IF s1.mtransition # 0 /\ Prog[s1.mtransition].end = f.s
     THEN IF initial_state[f.s] = None
          THEN Raise(s1, "AttributeError")
          ELSE Push(s1, <<Call("activate", initial_state[f.s], f.ev)>>)
     ELSE s1

\* ConcurrentState.activate: the regions found inactive are listed first.
ConcurrentActivate(st, f) ==
  LET s1 == StateActivate(st, f.s, f.ev)
  IN IF Raised(s1) THEN s1
     ELSE Push(s1, <<Loop("ConcurrentState.activate:for", f.s, f.ev,
                          SelectSeq(regions[f.s], LAMBDA r : ~s1.active[r]),
                          1)>>)

\* The loop of ConcurrentState.activate over the regions found inactive.
ConcurrentActivateFor(st, f) ==
  IF f.i > Len(f.list) THEN st
  ELSE IF initial_state[f.list[f.i]] = None
  THEN Push(st, <<Call("activate", f.list[f.i], f.ev),
                  Call("raise AttributeError", f.s, f.ev)>>)
  ELSE Push(st, <<Call("activate", f.list[f.i], f.ev),
                  Call("activate", initial_state[f.list[f.i]], f.ev),
                  Loop("ConcurrentState.activate:for", f.s, f.ev, f.list,
                       f.i + 1)>>)

\* A faulty activate: ChoiceState inherits State.activate.
ActivateChoiceAsState(st, f) ==
  CASE Kind[f.s] = "initial" -> InitialActivate(st, f)
    [] Kind[f.s] = "history" -> HistoryActivate(st, f)
    [] Kind[f.s] = "final" -> FinalActivate(st, f)
    [] Kind[f.s] = "composite" -> CompositeActivate(st, f)
    [] Kind[f.s] = "concurrent" -> ConcurrentActivate(st, f)
    [] Kind[f.s] = "statechart" ->
         Raise([st EXCEPT !.active[f.s] = TRUE],
               "Cannot define an entry action for a statechart")
    [] OTHER -> StateActivate(st, f.s, f.ev)

\* activate, by the class of the state.
Activate(st, f) ==
  CASE Kind[f.s] = "initial" -> InitialActivate(st, f)
    [] Kind[f.s] = "history" -> HistoryActivate(st, f)
    [] Kind[f.s] = "choice" -> ChoiceActivate(st, f)
    [] Kind[f.s] = "final" -> FinalActivate(st, f)
    [] Kind[f.s] = "composite" -> CompositeActivate(st, f)
    [] Kind[f.s] = "concurrent" -> ConcurrentActivate(st, f)
    [] Kind[f.s] = "statechart" ->
         Raise([st EXCEPT !.active[f.s] = TRUE],
               "Cannot define an entry action for a statechart")
    [] OTHER -> StateActivate(st, f.s, f.ev)

(***************************************************************************)
(* deactivate                                                              *)
(***************************************************************************)
\* FinalState.deactivate.
FinalDeactivate(st, f) ==
  [StateDeactivate(st, f.s, f.ev) EXCEPT !.finished[Context[f.s]] = FALSE]

\* A faulty CompositeState.deactivate: a final child is remembered too.
CompositeDeactivateStoresFinal(st, f) ==
  LET cur == st.current_state[f.s]
      s0 == [st EXCEPT !.left_final[f.s] = (cur # None /\ Kind[cur] = "final")]
      s1 == IF history_state[f.s] # None
            THEN [s0 EXCEPT !.hist_state[history_state[f.s]] = cur]
            ELSE s0
  IN IF cur = None THEN Raise(s1, "AttributeError")
     ELSE IF s1.active[cur]
     THEN Push(s1, <<Call("deactivate", cur, f.ev),
                     Call("Context.deactivate", f.s, f.ev)>>)
     ELSE ContextDeactivate(s1, f.s, f.ev)

\* CompositeState.deactivate.
CompositeDeactivate(st, f) ==
  LET cur == st.current_state[f.s]
      s0 == [st EXCEPT !.left_final[f.s] = (cur # None /\ Kind[cur] = "final")]
      s1 == IF history_state[f.s] # None
               /\ ~(cur # None /\ Kind[cur] = "final")
            THEN [s0 EXCEPT !.hist_state[history_state[f.s]] = cur]
            ELSE s0
  IN IF cur = None THEN Raise(s1, "AttributeError")
     ELSE IF s1.active[cur]
     THEN Push(s1, <<Call("deactivate", cur, f.ev),
                     Call("Context.deactivate", f.s, f.ev)>>)
     ELSE ContextDeactivate(s1, f.s, f.ev)

\* ConcurrentState.deactivate.
ConcurrentDeactivate(st, f) ==
  Push(st, <<Loop("ConcurrentState.deactivate:for", f.s, f.ev,
                  regions[f.s], 1),
             Call("State.deactivate", f.s, f.ev)>>)

\* The loop of ConcurrentState.deactivate over the regions.
ConcurrentDeactivateFor(st, f) ==
  IF f.i > Len(f.list) THEN st
  ELSE IF st.active[f.list[f.i]]
  THEN Push(st, <<Call("deactivate", f.list[f.i], f.ev),
                  Loop("ConcurrentState.deactivate:for", f.s, f.ev, f.list,
                       f.i + 1)>>)
  ELSE Push(st, <<Loop("ConcurrentState.deactivate:for", f.s, f.ev, f.list,
                       f.i + 1)>>)

\* deactivate, by the class of the state.
Deactivate(st, f) ==
  CASE Kind[f.s] = "final" -> FinalDeactivate(st, f)
    [] Kind[f.s] = "composite" -> CompositeDeactivate(st, f)
    [] Kind[f.s] = "concurrent" -> ConcurrentDeactivate(st, f)
    [] Kind[f.s] = "statechart" -> StatechartDeactivate(st, f.s, f.ev)
    [] OTHER -> StateDeactivate(st, f.s, f.ev)

(***************************************************************************)
(* Transition.execute.  In a frame of execute, i is the position of the    *)
(* transition in the program.                                              *)
(***************************************************************************)
Fired(st, id, event) ==
  [st EXCEPT !.fired = Append(@, [t |-> id, ev |-> event, d |-> st.depth])]

\* A faulty InternalTransition.execute: the sets of Transition.__init__
\* are kept, the state is left and entered again.
InternalExecuteExternal(st, f) ==
  LET t == Prog[f.i]
  IN IF ~IsAllowed(st, t, f.ev) THEN Return(st, FALSE)
     ELSE Push([st EXCEPT !.mtransition = f.i, !.depth = @ + 1],
               <<Loop("Transition.execute:deactivate", None, f.ev,
                      DeactivateSet(t.start, t.end), 1),
                 Loop("Transition.execute:action", None, f.ev, <<>>, f.i),
                 Loop("Transition.execute:activate", None, f.ev,
                      ActivateSet(t.start, t.end), 1),
                 Loop("Transition.execute:return", None, f.ev, <<>>, f.i)>>)

\* InternalTransition.execute.
InternalExecute(st, f) ==
  LET t == Prog[f.i]
  IN IF t.event # None /\ EventNe(t.event, f.ev) THEN Return(st, FALSE)
     ELSE IF t.guard # None /\ ~GuardCheck(st, t.guard) THEN Return(st, FALSE)
     ELSE Return(Observe(Fired(Observe(st, "action", None, f.i), f.i, f.ev),
                         "fired", None, f.i),
                 TRUE)

\* A faulty Transition.execute: the action runs before the source states
\* are deactivated.
ExecuteActionFirst(st, f) ==
  LET t == Prog[f.i]
  IN IF t.internal THEN InternalExecute(st, f)
     ELSE IF ~IsAllowed(st, t, f.ev) THEN Return(st, FALSE)
     ELSE Push([st EXCEPT !.mtransition = f.i, !.depth = @ + 1],
               <<Loop("Transition.execute:action", None, f.ev, <<>>, f.i),
                 Loop("Transition.execute:deactivate", None, f.ev,
                      TrDeactivate(t), 1),
                 Loop("Transition.execute:activate", None, f.ev,
                      TrActivate(t), 1),
                 Loop("Transition.execute:return", None, f.ev, <<>>, f.i)>>)

\* Transition.execute, up to the calls of deactivate, action and activate.
Execute(st, f) ==
  LET t == Prog[f.i]
  IN IF t.internal THEN InternalExecute(st, f)
     ELSE IF ~IsAllowed(st, t, f.ev) THEN Return(st, FALSE)
     ELSE Push([st EXCEPT !.mtransition = f.i, !.depth = @ + 1],
               <<Loop("Transition.execute:deactivate", None, f.ev,
                      TrDeactivate(t), 1),
                 Loop("Transition.execute:action", None, f.ev, <<>>, f.i),
                 Loop("Transition.execute:activate", None, f.ev,
                      TrActivate(t), 1),
                 Loop("Transition.execute:return", None, f.ev, <<>>, f.i)>>)

\* `for state in self.deactivate: state.deactivate(metadata, event)`
ExecuteDeactivate(st, f) ==
  IF f.i > Len(f.list) THEN st
  ELSE Push(st, <<Call("deactivate", f.list[f.i], f.ev),
                  Loop("Transition.execute:deactivate", None, f.ev, f.list,
                       f.i + 1)>>)

\* `self.action.execute(self.start.scope, event)`
ExecuteAction(st, f) ==
  LET s1 == Observe(st, "action", None, f.i)
  IN IF Prog[f.i].raises THEN Raise(s1, "action raised") ELSE s1

\* `for state in self.activate: state.activate(metadata, event)`
ExecuteActivate(st, f) ==
  IF f.i > Len(f.list) THEN st
  ELSE Push(st, <<Call("activate", f.list[f.i], f.ev),
                  Loop("Transition.execute:activate", None, f.ev, f.list,
                       f.i + 1)>>)

\* The end of Transition.execute; the transition is recorded as fired.
ExecuteReturn(st, f) ==
  LET s1 == [st EXCEPT !.mtransition = 0, !.depth = @ - 1]
  IN Return(Observe(Fired(s1, f.i, f.ev), "fired", None, f.i), TRUE)

\* `for transition in self.transitions: if transition.execute(...): break`
ExecuteFirst(st, f) ==
  IF f.i > Len(f.list) THEN Return(st, FALSE)
  ELSE Push(st, <<Loop("execute", None, f.ev, <<>>, f.list[f.i]),
                  Loop("execute first:if", f.s, f.ev, f.list, f.i)>>)

ExecuteFirstIf(st, f) ==
  IF st.ret THEN st
  ELSE Push(st, <<Loop("execute first", f.s, f.ev, f.list, f.i + 1)>>)

(***************************************************************************)
(* dispatch                                                                *)
(***************************************************************************)
\* State.dispatch.
StateDispatch(st, f) ==
  Push(HandleInternal(st, f.s),
       <<Loop("execute first", f.s, f.ev, Transitions(chart, f.s), 1)>>)

\* A faulty _is_local_transition: no transition is taken as local.
IsLocalTransitionNever(s, t) == FALSE

\* CompositeState._is_local_transition.
IsLocalTransition(s, t) ==
  IF t.start = t.end
     \/ \E i \in 1..Len(TrDeactivate(t)) : TrDeactivate(t)[i] = s
  THEN FALSE
  ELSE TRUE

\* CompositeState.dispatch, up to the dispatch to the current child.
CompositeDispatch(st, f) ==
  IF ~st.active[f.s]
  THEN Raise(st, "Inactive composite state attempting to dispatch transition")
  ELSE LET s1 == HandleInternal(st, f.s)
       IN IF s1.current_state[f.s] = None /\ initial_state[f.s] # None
          THEN Push(s1, <<Call("activate", initial_state[f.s], None),
                          Call("CompositeState.dispatch:activate", f.s, f.ev),
                          Call("CompositeState.dispatch:child", f.s, f.ev)>>)
          ELSE Push(s1, <<Call("CompositeState.dispatch:child", f.s, f.ev)>>)

\* `self.current_state.activate(metadata=metadata, event=event)`
CompositeDispatchActivate(st, f) ==
  IF st.current_state[f.s] = None THEN Raise(st, "AttributeError")
  ELSE Push(st, <<Call("activate", st.current_state[f.s], f.ev)>>)

\* `if self.current_state and self.current_state.dispatch(...)`
CompositeDispatchChild(st, f) ==
  IF st.current_state[f.s] = None
  THEN Push(Return(st, FALSE),
            <<Call("CompositeState.dispatch:dispatched", f.s, f.ev)>>)
  ELSE Push(st, <<Call("dispatch", st.current_state[f.s], f.ev),
                  Call("CompositeState.dispatch:dispatched", f.s, f.ev)>>)

\* A faulty CompositeState.dispatch: a final child is not looked for.
CompositeDispatchedNoCompletion(st, f) ==
  IF st.ret THEN Return(st, TRUE)
  ELSE Push(st, <<Loop("CompositeState.dispatch:for", f.s, f.ev,
                       Transitions(chart, f.s), 1)>>)

\* CompositeState.dispatch, after the dispatch to the current child.
CompositeDispatched(st, f) ==
  LET cur == st.current_state[f.s]
  IN IF st.ret
     THEN IF ~st.active[f.s] THEN Return(st, TRUE)
          ELSE IF cur # None /\ Kind[cur] = "final"
          THEN Push(st, <<Loop("CompositeState.dispatch:for", f.s, None,
                               Transitions(chart, f.s), 1)>>)
          ELSE Return(st, TRUE)
     ELSE Push(st, <<Loop("CompositeState.dispatch:for", f.s, f.ev,
                          Transitions(chart, f.s), 1)>>)

\* The loop of CompositeState.dispatch over the state's own transitions.
CompositeDispatchFor(st, f) ==
  IF f.i > Len(f.list) THEN Return(st, FALSE)
  ELSE
    LET t == Prog[f.list[f.i]]
        cur == st.current_state[f.s]
        go == <<Loop("execute", None, f.ev, <<>>, f.list[f.i]),
                Loop("CompositeState.dispatch:for:if", f.s, f.ev, f.list,
                     f.i)>>
    IN IF IsLocalTransition(f.s, t) /\ IsAllowed(st, t, f.ev)
       THEN IF cur = None THEN Raise(st, "AttributeError")
            ELSE Push(st, <<Call("deactivate", cur, f.ev)>> \o go)
       ELSE Push(st, go)

\* `if transition.execute(metadata=metadata, event=event): return True`
CompositeDispatchForIf(st, f) ==
  IF st.ret THEN st
  ELSE Push(st, <<Loop("CompositeState.dispatch:for", f.s, f.ev, f.list,
                       f.i + 1)>>)

\* ConcurrentState.dispatch, up to the loop over the regions.
ConcurrentDispatch(st, f) ==
  IF ~st.active[f.s]
  THEN Raise(st, "Inactive composite state attempting to dispatch transition")
  ELSE Push(HandleInternal(st, f.s),
            <<Frame("ConcurrentState.dispatch:for", f.s, f.ev, regions[f.s],
                    1, FALSE),
              Call("ConcurrentState.dispatch:dispatched", f.s, f.ev)>>)

\* The loop of ConcurrentState.dispatch over the regions.
ConcurrentDispatchFor(st, f) ==
  IF f.i > Len(f.list) THEN Return(st, f.acc)
  ELSE Push(st, <<Call("dispatch", f.list[f.i], f.ev),
                  Frame("ConcurrentState.dispatch:for:if", f.s, f.ev, f.list,
                        f.i, f.acc)>>)

\* `if region.dispatch(metadata=metadata, event=event): dispatched = True`
ConcurrentDispatchForIf(st, f) ==
  Push(st, <<Frame("ConcurrentState.dispatch:for", f.s, f.ev, f.list,
                   f.i + 1, f.acc \/ st.ret)>>)

\* ConcurrentState.dispatch, after the loop over the regions.
ConcurrentDispatched(st, f) ==
  IF st.ret THEN Return(st, TRUE)
  ELSE Push(st, <<Loop("execute first", f.s, f.ev, Transitions(chart, f.s),
                       1)>>)

\* dispatch, by the class of the state.
Dispatch(st, f) ==
  CASE Kind[f.s] = "composite" -> CompositeDispatch(st, f)
    [] Kind[f.s] = "concurrent" -> ConcurrentDispatch(st, f)
    [] Kind[f.s] = "initial" ->
         Push(st, <<Call("State.dispatch", f.s, f.ev),
                    Call("InitialState.dispatch:raise", f.s, f.ev)>>)
    [] OTHER -> StateDispatch(st, f)

(***************************************************************************)
(* The run of the frames on the stack.                                     *)
(***************************************************************************)
\* The frame on top of the stack is taken off and run up to its next call.
Step(st) ==
  LET f == Head(st.stack)
      s0 == [st EXCEPT !.stack = Tail(@)]
  IN CASE f.op = "activate" -> Activate(s0, f)
       [] f.op = "deactivate" -> Deactivate(s0, f)
       [] f.op = "dispatch" -> Dispatch(s0, f)
       [] f.op = "execute" -> Execute(s0, f)
       [] f.op = "execute first" -> ExecuteFirst(s0, f)
       [] f.op = "execute first:if" -> ExecuteFirstIf(s0, f)
       [] f.op = "State.dispatch" -> StateDispatch(s0, f)
       [] f.op = "State.deactivate" -> StateDeactivate(s0, f.s, f.ev)
       [] f.op = "Context.deactivate" -> ContextDeactivate(s0, f.s, f.ev)
       [] f.op = "InitialState.dispatch:raise" -> InitialDispatchRaise(s0, f)
       [] f.op = "ChoiceState.activate:raise" -> ChoiceActivateRaise(s0, f)
       [] f.op = "ConcurrentState.activate:for" -> ConcurrentActivateFor(s0, f)
       [] f.op = "ConcurrentState.deactivate:for" ->
            ConcurrentDeactivateFor(s0, f)
       [] f.op = "Transition.execute:deactivate" -> ExecuteDeactivate(s0, f)
       [] f.op = "Transition.execute:action" -> ExecuteAction(s0, f)
       [] f.op = "Transition.execute:activate" -> ExecuteActivate(s0, f)
       [] f.op = "Transition.execute:return" -> ExecuteReturn(s0, f)
       [] f.op = "CompositeState.dispatch:activate" ->
            CompositeDispatchActivate(s0, f)
       [] f.op = "CompositeState.dispatch:child" ->
            CompositeDispatchChild(s0, f)
       [] f.op = "CompositeState.dispatch:dispatched" ->
            CompositeDispatched(s0, f)
       [] f.op = "CompositeState.dispatch:for" -> CompositeDispatchFor(s0, f)
       [] f.op = "CompositeState.dispatch:for:if" ->
            CompositeDispatchForIf(s0, f)
       [] f.op = "ConcurrentState.dispatch:for" ->
            ConcurrentDispatchFor(s0, f)
       [] f.op = "ConcurrentState.dispatch:for:if" ->
            ConcurrentDispatchForIf(s0, f)
       [] f.op = "ConcurrentState.dispatch:dispatched" ->
            ConcurrentDispatched(s0, f)
       [] f.op = "raise AttributeError" -> Raise(s0, "AttributeError")

RECURSIVE Run(_)
\* The call runs until it returns or raises.
Run(st) ==
  IF Raised(st) \/ st.stack = <<>> THEN st ELSE Run(Step(st))

\* Statechart.start.
StatechartStart(st) ==
  LET s1 == [st EXCEPT !.active[Root] = TRUE]
  IN IF initial_state[Root] = None THEN Raise(s1, "AttributeError")
     ELSE Run(Push(s1, <<Call("activate", initial_state[Root], None)>>))

\* Statechart.stop.
StatechartStop(st) == StatechartDeactivate(st, Root, None)

\* Statechart.dispatch.
StatechartDispatch(st, event) ==
  LET s1 == HandleInternal(st, Root)
  IN IF s1.current_state[Root] = None THEN Raise(s1, "AttributeError")
     ELSE Run(Push(s1, <<Call("dispatch", s1.current_state[Root], event)>>))

(***************************************************************************)
(* The operations the caller may invoke.                                   *)
(***************************************************************************)
HistoryStates == {n \in Nodes : Kind[n] = "history"}

Calls(op, event, st, ret) ==
  /\ active' = st.active
  /\ current_state' = st.current_state
  /\ finished' = st.finished
  /\ hist_state' = st.hist_state
  /\ mtransition' = st.mtransition
  /\ err' = st.err
  /\ ctx' = st.ctx
  /\ log' = st.log
  /\ fired' = st.fired
  /\ left_final' = st.left_final
  /\ lastOp' = op
  /\ lastEvent' = event
  /\ result' = IF Raised(st) THEN "raised" ELSE ret
  /\ UNCHANGED <<chart, t_start, t_end, t_deactivate, t_activate,
                 constructed, transitions>>

Init ==
  /\ chart \in ChartNames
  /\ ctx \in BOOLEAN
  /\ active = [n \in Nodes |-> FALSE]
  /\ current_state = [n \in Nodes |-> None]
  /\ finished = [n \in Nodes |-> FALSE]
  /\ hist_state = [n \in HistoryStates |-> None]
  /\ mtransition = 0
  /\ err = "none"
  /\ lastOp = "init"
  /\ lastEvent = None
  /\ result = None
  /\ log = <<>>
  /\ fired = <<>>
  /\ t_start = None
  /\ t_end = None
  /\ t_deactivate = <<>>
  /\ t_activate = <<>>
  /\ constructed = <<>>
  /\ transitions = <<>>
  /\ seq = <<>>
  /\ pc = 0
  /\ first = [n \in Nodes |-> FALSE]
  /\ task = [n \in Nodes |-> FALSE]
  /\ left_final = [n \in Nodes |-> FALSE]

\* statechart.start()
Start ==
  /\ err = "none"
  /\ Calls("start", None, StatechartStart(Machine), None)
  /\ UNCHANGED <<seq, pc, first, task>>

\* statechart.stop()
Stop ==
  /\ err = "none"
  /\ Calls("stop", None, StatechartStop(Machine), None)
  /\ UNCHANGED <<seq, pc, first, task>>

\* statechart.dispatch(Event(e))
DispatchEvent ==
  /\ err = "none"
  /\ \E e \in Events :
       LET st == StatechartDispatch(Machine, e)
       IN Calls("dispatch", e, st, st.ret)
  /\ UNCHANGED <<seq, pc, first, task>>

\* The user's code changes the datum the guards read.
SetCtx ==
  /\ err = "none"
  /\ Calls("setctx", None, [Machine EXCEPT !.ctx = ~ctx], None)
  /\ UNCHANGED <<seq, pc, first, task>>

Next == Start \/ Stop \/ DispatchEvent \/ SetCtx

Spec == Init /\ [][Next]_vars

(***************************************************************************)
(* The construction of one transition between any two states of the tree.  *)
(***************************************************************************)
InitCalc ==
  /\ chart = "completion"
  /\ ctx = FALSE
  /\ active = [n \in Nodes |-> FALSE]
  /\ current_state = [n \in Nodes |-> None]
  /\ finished = [n \in Nodes |-> FALSE]
  /\ hist_state = [n \in HistoryStates |-> None]
  /\ mtransition = 0
  /\ err = "none"
  /\ lastOp = "init"
  /\ lastEvent = None
  /\ result = None
  /\ log = <<>>
  /\ fired = <<>>
  /\ t_start \in Nodes
  /\ t_end \in Nodes
  /\ t_deactivate = <<>>
  /\ t_activate = <<>>
  /\ constructed = <<>>
  /\ transitions = <<>>
  /\ seq = <<>>
  /\ pc = 0
  /\ first = [n \in Nodes |-> FALSE]
  /\ task = [n \in Nodes |-> FALSE]
  /\ left_final = [n \in Nodes |-> FALSE]

\* Transition.__init__: the call of _calculate_state_set(start, end).
CalculateStateSet ==
  /\ lastOp = "init"
  /\ lastOp' = "calculated"
  /\ t_deactivate' = DeactivateSet(t_start, t_end)
  /\ t_activate' = ActivateSet(t_start, t_end)
  /\ UNCHANGED <<chart, ctx, active, current_state, finished, hist_state,
                 mtransition, err, lastEvent, result, log, fired,
                 t_start, t_end, constructed, transitions, seq, pc, first,
                 task, left_final>>

NextCalc == CalculateStateSet

SpecCalc == InitCalc /\ [][NextCalc]_vars

(***************************************************************************)
(* The construction of up to MaxTransitions transitions from one state, in *)
(* any order of guards and triggers.                                       *)
(***************************************************************************)
MaxTransitions == 3

Guards == {None, "else", "ctx", "notctx"}

InitAdd ==
  /\ chart = "completion"
  /\ ctx \in BOOLEAN
  /\ active = [n \in Nodes |-> FALSE]
  /\ current_state = [n \in Nodes |-> None]
  /\ finished = [n \in Nodes |-> FALSE]
  /\ hist_state = [n \in HistoryStates |-> None]
  /\ mtransition = 0
  /\ err = "none"
  /\ lastOp = "init"
  /\ lastEvent = None
  /\ result = None
  /\ log = <<>>
  /\ fired = <<>>
  /\ t_start = None
  /\ t_end = None
  /\ t_deactivate = <<>>
  /\ t_activate = <<>>
  /\ constructed = <<>>
  /\ transitions = <<>>
  /\ seq = <<>>
  /\ pc = 0
  /\ first = [n \in Nodes |-> FALSE]
  /\ task = [n \in Nodes |-> FALSE]
  /\ left_final = [n \in Nodes |-> FALSE]

\* Transition(start=D, end=L, event=ev, guard=g): the call of
\* start.add_transition(self).
ConstructTransition ==
  /\ Len(constructed) < MaxTransitions
  /\ \E ev \in {None, "e"}, g \in Guards :
       LET t == Tr("D", "L", ev, g)
       IN /\ constructed' = Append(constructed, t)
          /\ transitions' =
               StateAddTransition(transitions, Len(constructed) + 1, t)
  /\ lastOp' = "constructed"
  /\ UNCHANGED <<chart, ctx, active, current_state, finished, hist_state,
                 mtransition, err, lastEvent, result, log, fired,
                 t_start, t_end, t_deactivate, t_activate, seq, pc, first,
                 task, left_final>>

NextAdd == ConstructTransition

SpecAdd == InitAdd /\ [][NextAdd]_vars

\* Transition(start=iS, end=D, event=ev, guard=g): the call of
\* start.add_transition(self) on an initial pseudostate.  result is the
\* RuntimeError the constructor raised, "none" when it returned.
ConstructInitialTransition ==
  /\ Len(constructed) < MaxTransitions
  /\ \E ev \in {None, "e"}, g \in Guards :
       LET t == Tr("iS", "D", ev, g)
           id == Len(constructed) + 1
       IN /\ constructed' = Append(constructed, t)
          /\ transitions' = InitialAddTransition(transitions, id, t)
          /\ result' = InitialAddTransitionError(transitions, id, t)
  /\ lastOp' = "constructed"
  /\ UNCHANGED <<chart, ctx, active, current_state, finished, hist_state,
                 mtransition, err, lastEvent, log, fired,
                 t_start, t_end, t_deactivate, t_activate, seq, pc, first,
                 task, left_final>>

NextAddInitial == ConstructInitialTransition

SpecAddInitial == InitAdd /\ [][NextAddInitial]_vars

(***************************************************************************)
(* The machine of one statechart, driven by a client that calls start only *)
(* on a statechart that is not running, as the docstring of start asks.    *)
(***************************************************************************)
StartStopped == ~active[Root] /\ Start

NextClient == StartStopped \/ Stop \/ DispatchEvent \/ SetCtx

InitCompletion == Init /\ chart = "completion"

SpecCompletion == InitCompletion /\ [][NextClient]_vars

InitLocal == Init /\ chart = "local"

SpecLocal == InitLocal /\ [][NextClient]_vars

InitNested == Init /\ chart = "nested"

SpecNested == InitNested /\ [][NextClient]_vars

InitConcurrent == Init /\ chart = "concurrent"

SpecConcurrent == InitConcurrent /\ [][NextClient]_vars

InitHistory == Init /\ chart = "history"

SpecHistory == InitHistory /\ [][NextClient]_vars

\* A client that starts the statechart once and never stops it.
NextRun == StartStopped \/ DispatchEvent \/ SetCtx

InitRun == Init

SpecRun == InitRun /\ [][NextRun]_vars

InitChoice == Init /\ chart = "choice"

SpecChoice == InitChoice /\ [][NextClient]_vars

InitEscape == Init /\ chart = "escape"

InitExitGuard == Init /\ chart = "exitguard"

SpecExitGuard == InitExitGuard /\ [][NextClient]_vars

SpecEscape == InitEscape /\ [][NextClient]_vars

InitKeyboard == Init /\ chart = "keyboard"

SpecKeyboard == InitKeyboard /\ [][NextClient]_vars

(***************************************************************************)
(* The queries.  They change nothing; each is written as the value it      *)
(* returns in the state at hand.                                           *)
(***************************************************************************)
\* State.name: the name the constructor was given; a pseudostate and a final
\* state name themselves.
Name ==
  [n \in Nodes |->
     CASE Kind[n] = "initial" -> "Initial"
       [] Kind[n] = "history" -> "Shallow history"
       [] Kind[n] = "choice" -> "Choice"
       [] Kind[n] = "final" -> "Final"
       [] OTHER -> n]

Names == {Name[n] : n \in Nodes}

\* What a call of is_active gives: the value returned, or raised when
\* current_state is None where the method reads it.
Gives(value) == [ret |-> value, raised |-> FALSE]

GivesAttributeError == [ret |-> FALSE, raised |-> TRUE]

\* any(...) over the values the regions give, in order: the first region
\* that gives true or raises ends the evaluation.
RECURSIVE AnyRegion(_, _)
AnyRegion(values, i) ==
  IF i > Len(values) THEN Gives(FALSE)
  ELSE IF values[i].raised \/ values[i].ret THEN values[i]
  ELSE AnyRegion(values, i + 1)

\* State.is_active, Context.is_active and ConcurrentState.is_active.
RECURSIVE IsActiveIn(_, _)
IsActiveIn(s, state_name) ==
  CASE Kind[s] \in {"statechart", "composite"} ->
         IF ~active[s] THEN Gives(FALSE)
         ELSE IF Name[s] = state_name THEN Gives(TRUE)
         ELSE IF current_state[s] = None THEN GivesAttributeError
         ELSE IsActiveIn(current_state[s], state_name)
    [] Kind[s] = "concurrent" ->
         IF ~active[s] THEN Gives(FALSE)
         ELSE IF Name[s] = state_name THEN Gives(TRUE)
         ELSE AnyRegion([i \in 1..Len(regions[s]) |->
                     IsActiveIn(regions[s][i], state_name)], 1)
    [] OTHER -> Gives(active[s] /\ Name[s] = state_name)

\* statechart.is_active(state_name)
IsActive(state_name) == IsActiveIn(Root, state_name)

\* The loop of active_states: node is appended, and the loop goes on with
\* its current_state when node is a Context.
RECURSIVE ActiveStatesLoop(_, _)
ActiveStatesLoop(states, node) ==
  IF node = None THEN states
  ELSE IF Kind[node] \in {"statechart", "composite"}
  THEN ActiveStatesLoop(Append(states, node), current_state[node])
  ELSE Append(states, node)

\* statechart.active_states()
ActiveStates ==
  IF active[Root] THEN ActiveStatesLoop(<<Root>>, current_state[Root])
  ELSE <<>>

(***************************************************************************)
(* The round trip: a client calls start(), sends the events of seq, calls  *)
(* stop() and start(), and sends the events of seq again.  The datum the   *)
(* guards read stays as it is.                                             *)
(***************************************************************************)
MaxEvents == 3

\* The sequences of at most n events.
Seqs(n) == UNION {[1..k -> Events] : k \in 0..n}

\* The calls of the round trip, in order.
Script == <<"start">> \o seq \o <<"stop", "start">> \o seq

InitRound ==
  /\ chart \in ChartNames
  /\ ctx \in BOOLEAN
  /\ active = [n \in Nodes |-> FALSE]
  /\ current_state = [n \in Nodes |-> None]
  /\ finished = [n \in Nodes |-> FALSE]
  /\ hist_state = [n \in HistoryStates |-> None]
  /\ mtransition = 0
  /\ err = "none"
  /\ lastOp = "init"
  /\ lastEvent = None
  /\ result = None
  /\ log = <<>>
  /\ fired = <<>>
  /\ t_start = None
  /\ t_end = None
  /\ t_deactivate = <<>>
  /\ t_activate = <<>>
  /\ constructed = <<>>
  /\ transitions = <<>>
  /\ seq \in Seqs(MaxEvents)
  /\ pc = 0
  /\ first = [n \in Nodes |-> FALSE]
  /\ task = [n \in Nodes |-> FALSE]
  /\ left_final = [n \in Nodes |-> FALSE]

\* The call the script is at is op.
AtCall(op) ==
  /\ err = "none"
  /\ pc < Len(Script)
  /\ Script[pc + 1] = op

\* The script moves on; the active flags at the end of the first run are
\* kept.
Advance ==
  /\ pc' = pc + 1
  /\ first' = IF pc + 1 = 1 + Len(seq) THEN active' ELSE first
  /\ UNCHANGED <<seq, task>>

\* statechart.start()
RoundStart ==
  /\ AtCall("start")
  /\ Calls("start", None, StatechartStart(Machine), None)
  /\ Advance

\* statechart.stop()
RoundStop ==
  /\ AtCall("stop")
  /\ Calls("stop", None, StatechartStop(Machine), None)
  /\ Advance

\* statechart.dispatch(Event(e))
RoundDispatch ==
  \E e \in Events :
    LET st == StatechartDispatch(Machine, e)
    IN /\ AtCall(e)
       /\ Calls("dispatch", e, st, st.ret)
       /\ Advance

NextRound == RoundStart \/ RoundStop \/ RoundDispatch

SpecRound == InitRound /\ [][NextRound]_vars

(***************************************************************************)
(* The do activities.  State.do "starts an async task"; the task goes on   *)
(* step by step between the calls of the client until it is finished.      *)
(* State.deactivate calls exit and clears the active flag: nothing in it   *)
(* reaches the task.                                                       *)
(***************************************************************************)
\* The tasks the calls of do made during the operation have started.
DoStarted ==
  /\ task' = [n \in Nodes |->
               \/ task[n]
               \/ \E i \in 1..Len(log') : log'[i].k = "do" /\ log'[i].n = n]
  /\ UNCHANGED <<seq, pc, first>>

\* statechart.start(), on a statechart that is not running
DoStart ==
  /\ err = "none"
  /\ ~active[Root]
  /\ Calls("start", None, StatechartStart(Machine), None)
  /\ DoStarted

\* statechart.stop()
DoStop ==
  /\ err = "none"
  /\ Calls("stop", None, StatechartStop(Machine), None)
  /\ DoStarted

\* statechart.dispatch(Event(e))
DoDispatch ==
  /\ err = "none"
  /\ \E e \in Events :
       LET st == StatechartDispatch(Machine, e)
       IN Calls("dispatch", e, st, st.ret)
  /\ DoStarted

\* The task of a state executes a step.
DoStep ==
  /\ err = "none"
  /\ \E n \in Nodes :
       /\ task[n]
       /\ lastOp' = "do step"
       /\ result' = n
  /\ lastEvent' = None
  /\ log' = <<>>
  /\ fired' = <<>>
  /\ UNCHANGED <<chart, ctx, active, current_state, finished, hist_state,
                 mtransition, err, t_start, t_end, t_deactivate, t_activate,
                 constructed, transitions, seq, pc, first, task,
                 left_final>>

\* The task of a state finishes.
DoFinish ==
  /\ err = "none"
  /\ \E n \in Nodes :
       /\ task[n]
       /\ task' = [task EXCEPT ![n] = FALSE]
       /\ result' = n
  /\ lastOp' = "do finish"
  /\ lastEvent' = None
  /\ log' = <<>>
  /\ fired' = <<>>
  /\ UNCHANGED <<chart, ctx, active, current_state, finished, hist_state,
                 mtransition, err, t_start, t_end, t_deactivate, t_activate,
                 constructed, transitions, seq, pc, first, left_final>>

NextDo == DoStart \/ DoStop \/ DoDispatch \/ DoStep \/ DoFinish

InitDo == Init /\ chart = "completion" /\ ~ctx

SpecDo == InitDo /\ [][NextDo]_vars

(***************************************************************************)
(* Properties.                                                             *)
(***************************************************************************)
\* The contexts above a node, the statechart included.
Ancestors[n \in Nodes] ==
  IF Context[n] = None THEN {} ELSE {Context[n]} \cup Ancestors[Context[n]]

Children(c) == {n \in Nodes : Context[n] = c}

\* The last call was start or dispatch and it returned.
Returned == err = "none" /\ lastOp \in {"start", "dispatch"}

\* C1: at every quiescent point (after start, after each dispatch that
\* returns, after stop) every active state has all its ancestors, up to the
\* statechart, active.
C1_ActiveAncestors ==
  (err = "none" /\ lastOp \in {"start", "dispatch", "stop"}) =>
    \A s \in Nodes : active[s] => \A a \in Ancestors[s] : active[a]

\* C2: after start and after every dispatch that returns, every active
\* composite (the statechart included) has exactly one active child, a
\* direct child, and current_state designates it.
C2_OneActiveChild ==
  Returned =>
    \A c \in Nodes :
      (Kind[c] \in {"composite", "statechart"} /\ active[c]) =>
        /\ current_state[c] \in Children(c)
        /\ active[current_state[c]]
        /\ \A k \in Children(c) : active[k] => k = current_state[c]

\* C3: after start and after every dispatch that returns, an active
\* concurrent state has all its regions active and an inactive one has no
\* active region.
C3_RegionsActive ==
  Returned =>
    \A c \in Nodes :
      Kind[c] = "concurrent" =>
        \A i \in 1..Len(regions[c]) : active[regions[c][i]] = active[c]

\* C4: after start and after any sequence of dispatched events no
\* pseudostate is active and no current_state designates a pseudostate.
C4_NoPseudoStateActive ==
  Returned =>
    /\ \A p \in PseudoStates : ~active[p]
    /\ \A c \in Nodes : current_state[c] \notin PseudoStates

\* A dispatch returned in which the transition of a choice pseudostate was
\* executed, on a statechart entered through its initial pseudostate.
C4_Witness ==
  /\ Returned
  /\ lastOp = "dispatch"
  /\ \E i \in 1..Len(fired) : Kind[Prog[fired[i].t].start] = "choice"
  /\ \E s \in Nodes \ PseudoStates : s # Root /\ active[s]

\* The positions of the log at which a transition executed by dispatch
\* itself (not by the activation of a pseudostate) returned.
Firings == {i \in 1..Len(log) : log[i].k = "fired" /\ log[i].d = 0}

\* The callbacks of the firing that ends at position i: those after the
\* firing before it.
Firing(i) ==
  {j \in 1..i : \A m \in Firings : m < i => m < j}

\* C5: within one transition firing the user callbacks come in this order:
\* the exits of the exited states, innermost first, then the transition's
\* action exactly once, then the entries of the entered states, outermost
\* first, those of the initial cascade included.
C5_ExitActionEntryOrder ==
  (err = "none" /\ lastOp = "dispatch") =>
    \A i \in Firings :
      /\ Cardinality({j \in Firing(i) :
                        log[j].k = "action" /\ log[j].t = log[i].t}) = 1
      /\ \A j, k \in Firing(i) :
           j < k =>
             /\ ~(log[j].k \in {"action", "entry"} /\ log[k].k = "exit")
             /\ ~(log[j].k = "exit" /\ log[k].k = "exit"
                  /\ log[j].n \in Ancestors[log[k].n])
             /\ ~(log[j].k = "entry" /\ log[k].k = "entry"
                  /\ log[k].n \in Ancestors[log[j].n])

\* The chain of contexts of a state, outermost first, the state last.
Chain[n \in Nodes] ==
  IF Context[n] = None \/ Kind[Context[n]] = "statechart"
  THEN <<n>>
  ELSE Append(Chain[Context[n]], n)

\* The first position at which two chains differ, the position after the
\* shorter one if none does.
FirstDifference(a, b) ==
  CHOOSE d \in 1..(Min(Len(a), Len(b)) + 1) :
    /\ d > Min(Len(a), Len(b)) \/ a[d] # b[d]
    /\ \A j \in 1..(d - 1) : a[j] = b[j]

\* C6: for every pair (A, B) of states of the tree the transition from A to
\* B has as exit set the chain of A from A up to the position of the first
\* difference of the two chains, innermost first, and as entry set the
\* chain of B from that position down to B; both are [A] when A is B.
C6_StateSets ==
  lastOp = "calculated" =>
    LET a == Chain[t_start]
        b == Chain[t_end]
        d == FirstDifference(a, b)
    IN IF t_start = t_end
       THEN t_deactivate = <<t_start>> /\ t_activate = <<t_start>>
       ELSE /\ Len(t_deactivate) = Len(a) - d + 1
            /\ \A k \in 1..Len(t_deactivate) :
                 t_deactivate[k] = a[Len(a) + 1 - k]
            /\ Len(t_activate) = Len(b) - d + 1
            /\ \A k \in 1..Len(t_activate) : t_activate[k] = b[d + k - 1]

\* The sets of a transition between two branches of the tree were
\* calculated, each of two states and more.
C6_Witness ==
  /\ lastOp = "calculated"
  /\ t_start # t_end
  /\ Len(t_deactivate) >= 2
  /\ Len(t_activate) >= 2
  /\ t_deactivate[Len(t_deactivate)] # t_activate[1]

\* C7: a transition is allowed for an event iff its trigger equals the
\* event by name, or trigger and event are both absent, and its guard, if
\* any, returns true; a transition without trigger that leaves a composite
\* whose child is not final is not fired by a named event.
C7_FiredOnlyIfTriggerMatches ==
  (err = "none" /\ lastOp = "dispatch") =>
    \A i \in 1..Len(fired) :
      LET t == Prog[fired[i].t]
      IN /\ \/ t.event # None /\ t.event = fired[i].ev
            \/ t.event = None /\ fired[i].ev = None
         /\ t.guard # None => GuardCheck([ctx |-> ctx], t.guard)

\* C8: an outgoing transition of a composite that matches the event is
\* fired only if no transition of a descendant of the composite fired for
\* the same event: at most one transition triggered by the event fires per
\* chain of composites per dispatch.
C8_OneTriggeredFiringPerChain ==
  (err = "none" /\ lastOp = "dispatch") =>
    \A i, j \in 1..Len(fired) :
      (/\ i # j
       /\ fired[i].ev = lastEvent
       /\ fired[j].ev = lastEvent
       /\ fired[i].d = 0
       /\ fired[j].d = 0) =>
        Prog[fired[i].t].start \notin Ancestors[Prog[fired[j].t].start]

\* A transition is allowed for a named event, as the specification has it.
AllowedFor(t, e) ==
  /\ t.event = e
  /\ t.guard # None => GuardCheck([ctx |-> ctx], t.guard)

\* No transition of any active state is allowed for the named event e.
NoTransitionAllowed(e) ==
  \A s \in Nodes :
    active[s] =>
      \A i \in 1..Len(Transitions(chart, s)) :
        ~AllowedFor(Prog[Transitions(chart, s)[i]], e)

\* C9: a dispatch of an event for which no transition of any active state
\* is allowed returns false and leaves the active flags, every
\* current_state, every finished flag and the history memory as they were.
C9_EventMissChangesNothing ==
  [][(/\ err = "none"
      /\ err' = "none"
      /\ lastOp' = "dispatch"
      /\ NoTransitionAllowed(lastEvent')) =>
       (/\ result' = FALSE
        /\ active' = active
        /\ current_state' = current_state
        /\ finished' = finished
        /\ hist_state' = hist_state)]_vars

\* C10: dispatch returns true iff at least one transition fired during the
\* dispatch, also when the firing was that of a child into a final state
\* and the composite has no transition to fire afterwards.
C10_TrueIffFired ==
  (err = "none" /\ lastOp = "dispatch") =>
    (result = TRUE <=> Len(fired) > 0)

\* The transitions of composite c that may fire on the completion of c: no
\* trigger, and a guard, if any, that passes.
CompletionTransitions(c) ==
  {i \in 1..Len(Prog) :
     /\ Prog[i].start = c
     /\ ~Prog[i].internal
     /\ Prog[i].event = None
     /\ Prog[i].guard # None => GuardCheck([ctx |-> ctx], Prog[i].guard)}

\* The firing at position i of the record was that of a child of a
\* composite into the final state of the composite.
ReachedFinal(i) ==
  LET t == Prog[fired[i].t]
  IN /\ fired[i].d = 0
     /\ Kind[t.end] = "final"
     /\ Context[t.start] = Context[t.end]
     /\ Kind[Context[t.end]] = "composite"

\* C11: when a dispatch makes the current child of a composite a final
\* state, a transition of the composite without trigger fires in the same
\* dispatch, with the absent event, and no transition of the composite
\* that carries a trigger is fired by the completion.
C11_CompletionInSameDispatch ==
  (err = "none" /\ lastOp = "dispatch") =>
    \A i \in 1..Len(fired) :
      ReachedFinal(i) =>
        LET c == Context[Prog[fired[i].t].end]
        IN /\ CompletionTransitions(c) # {} =>
                /\ i < Len(fired)
                /\ fired[i + 1].t \in CompletionTransitions(c)
                /\ fired[i + 1].ev = None
                /\ fired[i + 1].d = 0
           /\ \A j \in (i + 1)..Len(fired) :
                Prog[fired[j].t].start = c => Prog[fired[j].t].event = None

\* A dispatch fired a child's transition into the final state and then the
\* composite's transition without trigger.
C11_Witness ==
  /\ err = "none"
  /\ lastOp = "dispatch"
  /\ result = TRUE
  /\ Len(fired) = 2
  /\ ReachedFinal(1)
  /\ fired[1].ev = lastEvent
  /\ Prog[fired[2].t].start = Context[Prog[fired[1].t].end]
  /\ Prog[fired[2].t].event = None
  /\ fired[2].ev = None

\* The positions of the outgoing list whose transition is allowed for ev.
AllowedPositions(ev) ==
  {k \in 1..Len(transitions) :
     IsAllowed([ctx |-> ctx], constructed[transitions[k]], ev)}

\* C12: whatever the order in which the transitions of a state (not a
\* choice) were constructed, the outgoing list holds each of them once,
\* every transition with a guard before every transition without, so the
\* first allowed transition of the list, the one a dispatch fires, has a
\* guard whenever an allowed transition with a guard exists.
C12_GuardedFirst ==
  /\ Len(transitions) = Len(constructed)
  /\ \A i \in 1..Len(constructed) :
       \E k \in 1..Len(transitions) : transitions[k] = i
  /\ \A j, k \in 1..Len(transitions) :
       (/\ constructed[transitions[j]].guard # None
        /\ constructed[transitions[k]].guard = None) => j < k
  /\ \A ev \in Events :
       (\E k \in AllowedPositions(ev) :
          constructed[transitions[k]].guard # None) =>
         \E k \in AllowedPositions(ev) :
           /\ constructed[transitions[k]].guard # None
           /\ \A j \in AllowedPositions(ev) : k <= j

\* A transition without guard was constructed first, then one with a guard
\* that passes; both are allowed for event e.
C12_Witness ==
  /\ Len(constructed) = MaxTransitions
  /\ constructed[1].guard = None
  /\ constructed[2].guard # None
  /\ {1, 2} \subseteq {transitions[k] : k \in AllowedPositions("e")}

\* The child of composite c on the way down to its descendant n.
PathChild(c, n) ==
  CHOOSE k \in Children(c) : k = n \/ k \in Ancestors[n]

\* The transition at position i of the program leads from a composite to
\* one of its own descendants.
ToDescendant(i) ==
  /\ ~Prog[i].internal
  /\ Kind[Prog[i].start] = "composite"
  /\ Prog[i].start \in Ancestors[Prog[i].end]

C14_InternalTransitionFrame ==
  [][(/\ err = "none"
      /\ err' = "none"
      /\ lastOp' = "dispatch"
      /\ Len(fired') = 1
      /\ Prog[fired'[1].t].internal) =>
       (/\ result' = TRUE
        /\ Cardinality({j \in 1..Len(log') : log'[j].k = "action"}) = 1
        /\ \A j \in 1..Len(log') :
             /\ log'[j].k \notin {"entry", "do", "exit"}
             /\ log'[j].k = "action" => log'[j].t = fired'[1].t
        /\ active' = active
        /\ current_state' = current_state
        /\ finished' = finished
        /\ hist_state' = hist_state)]_vars

\* A dispatch fired the internal transition of a composite whose current
\* child is a composite.
C14_Witness ==
  /\ err = "none"
  /\ lastOp = "dispatch"
  /\ Len(fired) = 1
  /\ Prog[fired[1].t].internal
  /\ Kind[Prog[fired[1].t].start] = "composite"
  /\ active[Prog[fired[1].t].start]
  /\ current_state[Prog[fired[1].t].start] # None
  /\ Kind[current_state[Prog[fired[1].t].start]] = "composite"
  /\ active[current_state[Prog[fired[1].t].start]]

\* The history pseudostate the firing at position i of the record ended at.
EnteredHistory(rec, i) ==
  /\ rec[i].d = 0
  /\ Kind[Prog[rec[i].t].end] = "history"

\* C15: when composite K is entered again through its shallow-history
\* pseudostate, the child X that was current when K was exited (not a final
\* state) becomes the active child of K; if K was never exited, the target
\* of the one transition of the history pseudostate does.
C15_HistoryRestores ==
  [][\A i \in 1..Len(fired') :
       LET h == Prog[fired'[i].t].end
           K == Context[h]
       IN (/\ err = "none"
           /\ err' = "none"
           /\ lastOp' = "dispatch"
           /\ EnteredHistory(fired', i)
           /\ ~active[K]) =>
            /\ active'[K]
            /\ hist_state[h] # None =>
                 /\ current_state'[K] = hist_state[h]
                 /\ active'[hist_state[h]]
            /\ hist_state[h] = None =>
                 /\ Len(Transitions(chart, h)) = 1
                 /\ current_state'[K] = Prog[Transitions(chart, h)[1]].end
                 /\ active'[current_state'[K]]]_vars

\* C16: the state a shallow-history pseudostate of K remembers is a direct
\* child of K; when K is entered again through the pseudostate and the
\* remembered child is a composite without a history pseudostate of its
\* own, that composite is entered through its initial pseudostate: it is
\* the active child of K and its default child is its active child.
C16_HistoryRestoresComposite ==
  [][/\ \A h \in HistoryStates :
          hist_state'[h] # None => Context[hist_state'[h]] = Context[h]
     /\ \A i \in 1..Len(fired') :
          LET h == Prog[fired'[i].t].end
              K == Context[h]
              m == hist_state[h]
          IN (/\ err = "none"
              /\ err' = "none"
              /\ lastOp' = "dispatch"
              /\ EnteredHistory(fired', i)
              /\ ~active[K]
              /\ m # None
              /\ Kind[m] = "composite"
              /\ history_state[m] = None
              /\ initial_state[m] # None
              /\ Len(Transitions(chart, initial_state[m])) = 1) =>
               /\ active'[m]
               /\ current_state'[K] = m
               /\ current_state'[m] =
                    Prog[Transitions(chart, initial_state[m])[1]].end
               /\ active'[current_state'[m]]]_vars

\* C17: in every reachable state no shallow-history pseudostate remembers
\* a final state or a pseudostate.
C17_HistoryNeverFinal ==
  \A h \in HistoryStates :
    hist_state[h] # None =>
      /\ Kind[hist_state[h]] # "final"
      /\ hist_state[h] \notin PseudoStates

\* A composite that had been left before with a child that is remembered
\* was left with its final state as current child.
C17_Witness ==
  /\ err = "none"
  /\ lastOp = "dispatch"
  /\ \E h \in HistoryStates :
       /\ hist_state[h] # None
       /\ ~active[Context[h]]
       /\ \E j, k \in 1..Len(log) :
            /\ j < k
            /\ log[j].k = "exit" /\ log[j].n # None
            /\ Kind[log[j].n] = "final"
            /\ Context[log[j].n] = Context[h]
            /\ log[k].k = "exit" /\ log[k].n = Context[h]

\* The transitions of choice pseudostate c that may be chosen: those whose
\* guard passes or that have no guard.
Choosable(c) ==
  {k \in 1..Len(Prog) :
     /\ Prog[k].start = c
     /\ IsAllowed([ctx |-> ctx], Prog[k], None)}

\* C18: when a choice pseudostate is entered, the transition that fires is
\* the first in the order of declaration whose guard passes or that has no
\* guard, also when a transition with a guard was declared after it; one
\* transition fires per entry and the states the other transitions lead to
\* are not entered.
C18_ChoiceInDeclarationOrder ==
  Returned =>
    \A c \in Nodes :
      Kind[c] = "choice" =>
        /\ Cardinality({i \in 1..Len(fired) : Prog[fired[i].t].start = c}) =
             Cardinality({i \in 1..Len(fired) : Prog[fired[i].t].end = c})
        /\ \A i \in 1..Len(fired) :
             Prog[fired[i].t].start = c =>
               /\ fired[i].t \in Choosable(c)
               /\ \A k \in Choosable(c) : fired[i].t <= k
               /\ \A k \in 1..Len(Prog), j \in 1..Len(log) :
                    (/\ Prog[k].start = c
                     /\ Prog[k].end # Prog[fired[i].t].end
                     /\ log[j].k = "entry") => log[j].n # Prog[k].end

\* A choice fired its transition without guard although the guard of a
\* transition declared after it passes.
C18_Witness ==
  /\ Returned
  /\ \E i \in 1..Len(fired) :
       /\ Kind[Prog[fired[i].t].start] = "choice"
       /\ Prog[fired[i].t].guard = None
       /\ \E k \in Choosable(Prog[fired[i].t].start) :
            k > fired[i].t /\ Prog[k].guard # None
       /\ active[Prog[fired[i].t].end]

\* The action of a transition that ends at choice pseudostate c ran during
\* the last call: c was entered.
ChoiceEntered(c) ==
  /\ lastOp \in {"start", "dispatch"}
  /\ \E j \in 1..Len(log) :
       log[j].k = "action" /\ Prog[log[j].t].end = c

\* C19: when a choice pseudostate is entered and none of its transitions
\* has a guard that passes, start or dispatch does not return: the caller
\* gets the RuntimeError, and nothing runs after the action of the
\* transition that entered the choice; a call that returns never leaves a
\* choice active.
C19_NoChoiceRaises ==
  \A c \in Nodes :
    Kind[c] = "choice" =>
      /\ (ChoiceEntered(c) /\ Choosable(c) = {}) =>
           /\ err = "No choice made due to guard conditions"
           /\ result = "raised"
           /\ log[Len(log)].k = "action"
           /\ Prog[log[Len(log)].t].end = c
      /\ err = "none" => ~active[c] /\ current_state[Context[c]] # c

\* A dispatch entered a choice none of whose guards passes.
C19_Witness ==
  /\ lastOp = "dispatch"
  /\ \E c \in Nodes :
       Kind[c] = "choice" /\ ChoiceEntered(c) /\ Choosable(c) = {}
  /\ err # "none"

\* The states of the subtree of r.
Subtree(r) == {n \in Nodes : n = r \/ r \in Ancestors[n]}

\* The record of the log is a callback of a state of the subtree of r, or
\* the action or the return of a transition that starts there.
Belongs(rec, r) ==
  IF rec.k \in {"action", "fired"}
  THEN Prog[rec.t].start \in Subtree(r)
  ELSE rec.n \in Subtree(r)

\* The first transition of state c that is allowed for event ev, 0 if none
\* is: the one State.dispatch executes.
FirstAllowed(c, ev) ==
  LET list == Transitions(chart, c)
      ok == {k \in 1..Len(list) : IsAllowed([ctx |-> ctx], Prog[list[k]], ev)}
  IN IF ok = {} THEN 0
     ELSE list[CHOOSE k \in ok : \A j \in ok : k <= j]

\* The event of the step is dispatched to concurrent state c, the current
\* child of the statechart, and the dispatch returns.
DispatchedTo(c) ==
  /\ err = "none"
  /\ err' = "none"
  /\ lastOp' = "dispatch"
  /\ Kind[c] = "concurrent"
  /\ current_state[Root] = c
  /\ active[c]

\* A transition that starts in a region of c fired.
RegionFired(c) ==
  \E i \in 1..Len(fired') :
    /\ fired'[i].d = 0
    /\ Prog[fired'[i].t].start \in Subtree(c) \ {c}

\* The positions in the log of the operation at which a transition of c
\* itself ran its action or returned.
OwnFired(c) ==
  {j \in 1..Len(log') :
     /\ log'[j].k \in {"action", "fired"}
     /\ Prog[log'[j].t].start = c}

\* Region number x of c is offered the event after the regions before it,
\* fires the first allowed transition of its current child if there is one
\* and nothing else, and all it does comes before the next region is
\* offered the event.  (A transition of c itself may fire after the last
\* region was offered the event, and exit the regions.)
RegionsInOrder(c) ==
  \A x \in 1..Len(regions[c]) :
    LET r == regions[c][x]
        cur == current_state[r]
        offered(y) == {j \in 1..Len(log') :
                         log'[j].k = "internal" /\ log'[j].n = regions[c][y]}
        mine == {i \in 1..Len(fired') :
                   fired'[i].d = 0 /\ Prog[fired'[i].t].start \in Subtree(r)}
    IN /\ Cardinality(offered(x)) = 1
       /\ \A j \in 1..Len(log') :
            (OwnFired(c) = {} /\ Belongs(log'[j], r)) =>
              /\ \A o \in offered(x) : o <= j
              /\ \A y \in (x + 1)..Len(regions[c]) :
                   \A o \in offered(y) : j < o
       /\ (cur # None /\ Kind[cur] = "state") =>
            IF FirstAllowed(cur, lastEvent') = 0 THEN mine = {}
            ELSE /\ Cardinality(mine) = 1
                 /\ \A i \in mine :
                      /\ fired'[i].t = FirstAllowed(cur, lastEvent')
                      /\ fired'[i].ev = lastEvent'

\* C20: an event dispatched to an active concurrent state is offered to
\* every region in the order of declaration, every region with an allowed
\* transition fires it, what region i does is complete before region i+1
\* is offered the event, and the result is true iff at least one region
\* fired.  (The result is looked at when no transition of the concurrent
\* state itself fired: such a transition makes the result true as well.)
C20_RegionsInDeclarationOrder ==
  [][\A c \in Nodes :
       DispatchedTo(c) =>
         /\ RegionsInOrder(c)
         /\ OwnFired(c) = {} => (result' = TRUE <=> RegionFired(c))]_vars

\* C21: during a dispatch to an active concurrent state, a transition of
\* the concurrent state itself fires only after every region was offered
\* the event, and none fires when a transition fired in a region.
C21_OwnTransitionsAfterRegions ==
  [][\A c \in Nodes :
       DispatchedTo(c) =>
         /\ \A j \in OwnFired(c) :
              \A x \in 1..Len(regions[c]) :
                \E o \in 1..j :
                  log'[o].k = "internal" /\ log'[o].n = regions[c][x]
         /\ RegionFired(c) => OwnFired(c) = {}]_vars

\* Event ev is the trigger of transitions of region r and of no transition
\* outside it.
TriggerOnlyIn(ev, r) ==
  /\ \E i \in 1..Len(Prog) : Prog[i].event = ev
  /\ \A i \in 1..Len(Prog) :
       Prog[i].event = ev => Prog[i].start \in Subtree(r) \ {r}

\* C22: a dispatch to an active concurrent state of an event that is the
\* trigger of transitions in one region only moves the current child of
\* that region along the allowed transition, and leaves the other regions,
\* their states and the active flag of the concurrent state as they were.
C22_OnlyOneRegionChanges ==
  [][\A c \in Nodes :
       \A x \in 1..Len(regions[c]) :
         (DispatchedTo(c) /\ TriggerOnlyIn(lastEvent', regions[c][x])) =>
           LET r == regions[c][x]
               t == FirstAllowed(current_state[r], lastEvent')
           IN /\ active'[c] = active[c]
              /\ t # 0 =>
                   /\ current_state'[r] = Prog[t].end
                   /\ active'[Prog[t].end]
              /\ \A y \in 1..Len(regions[c]) \ {x} :
                   /\ current_state'[regions[c][y]] =
                        current_state[regions[c][y]]
                   /\ \A n \in Subtree(regions[c][y]) :
                        active'[n] = active[n]]_vars

\* The second region of the keyboard was switched by its own event while
\* the first region was in its second state.
C22_Witness ==
  /\ err = "none"
  /\ lastOp = "dispatch"
  /\ \E c \in Nodes :
       /\ Kind[c] = "concurrent"
       /\ active[c]
       /\ TriggerOnlyIn(lastEvent, regions[c][2])
       /\ \E i \in 1..Len(fired) :
            /\ fired[i].ev = lastEvent
            /\ Prog[fired[i].t].start \in Subtree(regions[c][2])
            /\ current_state[regions[c][2]] = Prog[fired[i].t].end
       /\ current_state[regions[c][1]] # None
       /\ \A i \in 1..Len(Prog) :
            Prog[i].start = initial_state[regions[c][1]] =>
              current_state[regions[c][1]] # Prog[i].end

\* Statechart.is_finished.
IsFinished == finished[Root]

\* C23: after every operation that returned, stop() and a start() after
\* stop() included, the finished flag of a composite, and is_finished() for
\* the statechart, is true iff the current child of the composite is a
\* final state that is active.
C23_FinishedIffFinalChild ==
  err = "none" =>
    /\ \A c \in Nodes :
         Kind[c] = "composite" =>
           (finished[c] <=>
              /\ current_state[c] # None
              /\ Kind[current_state[c]] = "final"
              /\ active[current_state[c]])
    /\ IsFinished <=>
         /\ current_state[Root] # None
         /\ Kind[current_state[Root]] = "final"
         /\ active[current_state[Root]]

\* C24: after stop() returned no state is active, the statechart included,
\* and the current_state of every composite and of the statechart is
\* cleared.
C24_StopDeactivatesAll ==
  (lastOp = "stop" /\ err = "none") =>
    /\ \A n \in Nodes : ~active[n]
    /\ \A c \in Nodes :
         Kind[c] \in {"composite", "statechart"} => current_state[c] = None

\* The calls start(), seq, stop(), start() of the round trip were made.
Restarted == pc >= Len(seq) + 3

C26_RoundTrip ==
  (err = "none" /\ pc = Len(Script)) => active = first

\* C27: after every operation that returned and for every name,
\* is_active(name) returns true iff a state of that name has its active
\* flag set, a state in a region of a concurrent state included; after
\* stop() it returns false for every name.
C27_IsActiveIffActiveFlag ==
  err = "none" =>
    \A name \in Names :
      /\ ~IsActive(name).raised
      /\ IsActive(name).ret <=> \E n \in Nodes : active[n] /\ Name[n] = name
      /\ lastOp = "stop" => ~IsActive(name).ret

\* C28: after every operation that returned, active_states() holds exactly
\* the states whose active flag is set, each once, the statechart first and
\* every state after its parent.
C28_ActiveStatesExact ==
  err = "none" =>
    LET states == ActiveStates
    IN /\ {states[i] : i \in 1..Len(states)} = {n \in Nodes : active[n]}
       /\ \A i, j \in 1..Len(states) : states[i] = states[j] => i = j
       /\ states # <<>> => states[1] = Root
       /\ \A i \in 2..Len(states) :
            \E j \in 1..(i - 1) : states[j] = Context[states[i]]

\* C29: a state that is deactivated while the task of its do activity is
\* in progress has the task cancelled before its exit action runs: no step
\* of the task executes once the state was exited.
C29_NoDoStepAfterExit ==
  [][\A n \in Nodes :
       (lastOp' = "do step" /\ result' = n) => active[n]]_vars

\* C30: start() called on a statechart that was started and not stopped
\* raises RuntimeError.
C30_StartTwiceRaises ==
  [][(err = "none" /\ active[Root] /\ lastOp' = "start") =>
       err' \notin {"none", "AttributeError"}]_vars

\* C31: start() fails with an error when the root has no initial
\* pseudostate, and raises RuntimeError when the initial pseudostate of the
\* root has no outgoing transition; in neither case does start() return
\* normally.
C31_StartFailsWithoutInitial ==
  [][(err = "none" /\ lastOp' = "start") =>
       /\ initial_state[Root] = None => err' # "none"
       /\ ( /\ initial_state[Root] # None
            /\ Transitions(chart, initial_state[Root]) = <<>> ) =>
            err' = "Initial state must be able to dispatch transition"]_vars

C31_Witness ==
  /\ initial_state[Root] # None
  /\ Transitions(chart, initial_state[Root]) = <<>>
  /\ lastOp = "start"
  /\ err = "Initial state must be able to dispatch transition"
  /\ active[Root]

\* C32: an initial pseudostate never has more than one outgoing
\* transition, and that transition has no trigger and no guard: the
\* construction of a second transition from it, or of one with an event or
\* a guard, raises RuntimeError and leaves the outgoing list of the initial
\* pseudostate unchanged.
C32_InitialSingleTransition ==
  [][lastOp' = "constructed" =>
       LET t == constructed'[Len(constructed')]
       IN /\ Len(transitions') <= 1
          /\ \A k \in 1..Len(transitions') :
               /\ constructed'[transitions'[k]].event = None
               /\ constructed'[transitions'[k]].guard = None
          /\ (Len(transitions) > 0 \/ t.event # None \/ t.guard # None) =>
               (result' # "none" /\ transitions' = transitions)
          /\ (Len(transitions) = 0 /\ t.event = None /\ t.guard = None) =>
               (result' = "none" /\ transitions' = <<Len(constructed')>>)]_vars

\* A transition with a guard was refused, one without trigger and guard
\* was taken, a second one of that kind was refused.
C32_Witness ==
  /\ Len(constructed) = 3
  /\ constructed[1].guard # None
  /\ constructed[2] = Tr("iS", "D", None, None)
  /\ constructed[3] = Tr("iS", "D", None, None)
  /\ transitions = <<2>>
  /\ result = "There can only be a single transition from an initial state"

\* The composites the transition that returned at position i of the log
\* entered: those of its activate list.
EnteredComposites(i) ==
  LET t == Prog[log[i].t]
  IN {TrActivate(t)[k] : k \in 1..Len(TrActivate(t))} \cap
       {c \in Nodes : Kind[c] = "composite"}

\* The initial pseudostate of composite c was activated within the firing
\* that ends at position i: its transition was executed.
InitialActivated(c, i) ==
  \E j \in Firing(i) :
    /\ log[j].k = "fired"
    /\ Prog[log[j].t].start = initial_state[c]

\* The default child of composite c: the target of the transition of its
\* initial pseudostate.
DefaultChild(c) ==
  Prog[Transitions(chart, initial_state[c])[1]].end

\* C33: the firing of a transition whose target is a composite itself
\* activates the initial pseudostate of the composite, and the cascade
\* goes on until a state that is neither composite nor pseudostate was
\* entered; the firing of a transition whose target is a descendant (not a
\* pseudostate) of a composite it enters activates neither the initial
\* pseudostate of that composite nor, unless the target lies in it, its
\* default child.
C33_InitialOnlyWhenTargeted ==
  Returned =>
    \A i \in Firings :
      \A c \in EnteredComposites(i) :
        LET t == Prog[log[i].t]
        IN /\ t.end = c =>
                /\ InitialActivated(c, i)
                /\ \E j \in Firing(i) :
                     /\ log[j].k = "entry"
                     /\ log[j].n \in Subtree(c)
                     /\ Kind[log[j].n] \notin {"composite", "statechart"}
           /\ (t.end # c /\ t.end \notin PseudoStates) =>
                /\ ~InitialActivated(c, i)
                /\ DefaultChild(c) \notin Subtree(t.end) \cup Ancestors[t.end]
                     => \A j \in Firing(i) :
                          ~(log[j].k = "entry" /\ log[j].n = DefaultChild(c))

\* The elements of a sequence.
Range(q) == {q[k] : k \in 1..Len(q)}

\* The positions of the log at which an action that raises ran.
RaisingActions(l) ==
  {j \in 1..Len(l) : l[j].k = "action" /\ Prog[l[j].t].raises}

\* C34: when the action of the transition of a dispatched event raises,
\* the error reaches the caller of dispatch, every state of the exit set of
\* the transition has been deactivated, its exit action run, and no state
\* of the entry set has been activated: no entry action ran after the
\* action.
C34_RaisingActionAfterExit ==
  [][(err = "none" /\ lastOp' = "dispatch") =>
       \A j \in RaisingActions(log') :
         LET t == Prog[log'[j].t]
         IN /\ err' = "action raised"
            /\ j = Len(log')
            /\ \A n \in Range(TrDeactivate(t)) :
                 /\ ~active'[n]
                 /\ \E k \in 1..(j - 1) : log'[k].k = "exit" /\ log'[k].n = n
            /\ \A n \in Range(TrActivate(t)) : active'[n] => active[n]
            /\ \A k \in 1..Len(log') : log'[k].k # "entry"]_vars

\* The action of the transition from the child of a composite to a state
\* outside raised: the child and the composite were exited.
C34_Witness ==
  /\ lastOp = "dispatch"
  /\ err = "action raised"
  /\ log # <<>>
  /\ log[Len(log)].k = "action"
  /\ Len(TrDeactivate(Prog[log[Len(log)].t])) = 2
  /\ TrActivate(Prog[log[Len(log)].t]) # <<>>

\* The positions of log l that record a call of handle_internal with the
\* event that was dispatched: those made by dispatch itself, not by the
\* dispatch(event=None) of an initial pseudostate that is being activated.
Internals(l) == {j \in 1..Len(l) : l[j].k = "internal" /\ l[j].d = 0}

\* Every state that is active when the event is dispatched receives
\* handle_internal.
InternalToEveryActive ==
  \A n \in Nodes :
    active[n] => \E j \in Internals(log') : log'[j].n = n

\* No state receives handle_internal after a state it contains.
InternalOutsideIn ==
  \A j, k \in Internals(log') :
    j < k => log'[k].n \notin Ancestors[log'[j].n]

\* No call of handle_internal comes after a callback of a transition: an
\* exit action, a transition action or an entry action.
InternalBeforeTransitions ==
  \A j \in Internals(log') :
    \A k \in 1..(j - 1) : log'[k].k \notin {"exit", "action", "entry"}

\* The states that receive handle_internal were active when the event was
\* dispatched.
InternalNotToEntered ==
  \A j \in Internals(log') : active[log'[j].n]

\* C35: on every dispatch handle_internal is called with the event on
\* every active state of the configuration, from the outside in, every
\* call before any transition is processed for the event; a state that
\* becomes active as a result of the dispatch does not receive
\* handle_internal for the event that activated it.
C35_InternalBeforeTransitions ==
  [][(err = "none" /\ lastOp' = "dispatch" /\ err' = "none") =>
       /\ InternalToEveryActive
       /\ InternalOutsideIn
       /\ InternalBeforeTransitions
       /\ InternalNotToEntered]_vars

\* The transition at position i of the program leads from a state inside
\* a region of concurrent state c to a state outside c.
LeavesConcurrent(i, c) ==
  /\ Kind[c] = "concurrent"
  /\ Prog[i].start \in Subtree(c) \ {c}
  /\ Prog[i].end \notin Subtree(c)

\* C36: when a transition fired by a state inside one region leads to a
\* state outside the enclosing concurrent state, the dispatch completes
\* without raising: the concurrent state and all its regions are
\* deactivated, the event is not dispatched to a later region, which has
\* become inactive, and dispatch returns true.
C36_LeavingFromRegion ==
  [][(err = "none" /\ lastOp' = "dispatch") =>
       \A c \in Nodes :
         \A x \in 1..Len(regions[c]) :
           (/\ active[c]
            /\ \E i \in 1..Len(fired') :
                 /\ fired'[i].d = 0
                 /\ LeavesConcurrent(fired'[i].t, c)
                 /\ Prog[fired'[i].t].start \in Subtree(regions[c][x])) =>
             /\ err' = "none"
             /\ result' = TRUE
             /\ ~active'[c]
             /\ \A y \in 1..Len(regions[c]) : ~active'[regions[c][y]]
             /\ \A y \in (x + 1)..Len(regions[c]) :
                  \A j \in 1..Len(log') :
                    ~(log'[j].k = "internal" /\ log'[j].n = regions[c][y])]_vars

\* C37: when an inactive concurrent state is entered by a transition whose
\* target is a state X inside one of its regions R, then after the firing
\* all regions are active, the child of R on the way to X is the only
\* active child of R (the default child of R is not active beside it),
\* every other region has its default child active, and the entry action
\* of R has run exactly once.
C37_DirectRegionEntry ==
  [][(err = "none" /\ lastOp' = "dispatch" /\ err' = "none") =>
       \A c \in Nodes :
         \A x \in 1..Len(regions[c]) :
           LET R == regions[c][x]
           IN (/\ ~active[c]
               /\ Len(fired') > 0
               /\ fired'[Len(fired')].d = 0
               /\ Prog[fired'[Len(fired')].t].end \in Subtree(R) \ {R}
               /\ Prog[fired'[Len(fired')].t].start \notin Subtree(c)) =>
                LET X == Prog[fired'[Len(fired')].t].end
                IN /\ \A y \in 1..Len(regions[c]) : active'[regions[c][y]]
                   /\ {n \in Children(R) : active'[n]} = {PathChild(R, X)}
                   /\ \A y \in 1..Len(regions[c]) :
                        y # x =>
                          {n \in Children(regions[c][y]) : active'[n]} =
                            {DefaultChild(regions[c][y])}
                   /\ Cardinality({j \in 1..Len(log') :
                                     /\ log'[j].k = "entry"
                                     /\ log'[j].n = R}) = 1]_vars

\* How often the callback k of state n ran in log l.
Count(l, k, n) ==
  Cardinality({j \in 1..Len(l) : l[j].k = k /\ l[j].n = n})

\* 1 for a state that is active, 0 for one that is not.
ActiveCount(a, n) == IF a[n] THEN 1 ELSE 0

\* C38: after start and any sequence of dispatches that return normally,
\* without stop, for every state S that is neither pseudostate nor the
\* statechart the number of runs of the entry action of S less the number
\* of runs of its exit action is 1 if S is active and 0 if it is not.  No
\* state is active and no action has run before start, so this says of
\* every call that the entries less the exits it ran are the change of
\* the active flag.
C38_EntryExitBalance ==
  [][(err = "none" /\ lastOp' \in {"start", "dispatch"} /\ err' = "none") =>
       \A n \in Nodes \ (PseudoStates \cup {Root}) :
         Count(log', "entry", n) - Count(log', "exit", n) =
           ActiveCount(active', n) - ActiveCount(active, n)]_vars

\* Composite c has a transition to one of its own descendants.
HasLocalTransition(c) ==
  \E k \in 1..Len(Transitions(chart, c)) :
    IsLocalTransition(c, Prog[Transitions(chart, c)[k]])

\* C39: the current child of a composite with a transition to its own
\* descendant is deactivated only if that transition then fires in the
\* same dispatch: whenever the dispatch fires no transition, the child is
\* still active, also when the guard of the transition reads data that the
\* exit action of the child modifies.
C39_ChildKeptUnlessFired ==
  [][(err = "none" /\ lastOp' = "dispatch" /\ err' = "none") =>
       \A c \in Nodes :
         (/\ Kind[c] = "composite"
          /\ HasLocalTransition(c)
          /\ active[c]
          /\ current_state[c] # None
          /\ active[current_state[c]]
          /\ fired' = <<>>) =>
           active'[current_state[c]]]_vars

\* Composite K was exited during the operation.
Exited(K) == \E j \in 1..Len(log') : log'[j].k = "exit" /\ log'[j].n = K

\* C40: when a composite with a shallow-history pseudostate is exited
\* while its current child is a final state, the pseudostate keeps the
\* child it remembered at the exit before (it is neither overwritten nor
\* cleared), and the next entry through the pseudostate restores that
\* older child.
C40_FinalKeepsOlderHistory ==
  [][(err = "none" /\ lastOp' = "dispatch" /\ err' = "none") =>
       \A h \in HistoryStates :
         LET K == Context[h]
         IN /\ (Exited(K) /\ left_final'[K]) => hist_state'[h] = hist_state[h]
            /\ \A i \in 1..Len(fired') :
                 (/\ EnteredHistory(fired', i)
                  /\ Prog[fired'[i].t].end = h
                  /\ ~active[K]
                  /\ left_final[K]
                  /\ hist_state[h] # None) =>
                   /\ current_state'[K] = hist_state[h]
                   /\ active'[hist_state[h]]]_vars

====
